---- MODULE Spec2Model ----
(***************************************************************************)
(* Punch reconciliation engine of hr_attendance_gateway.                   *)
(*                                                                         *)
(* Time is counted in whole seconds since midnight UTC of day 0 (Odoo      *)
(* Datetime values are naive UTC, truncated to the second).  Float hour    *)
(* and minute settings of a shift are kept in seconds, so that             *)
(*   hours_since > auto_close_hours   is   delta > auto_close_sec          *)
(*   minutes_since < min_gap          is   delta < min_gap_sec             *)
(* for the values used here (all exactly representable).                   *)
(***************************************************************************)
EXTENDS Integers, Sequences, FiniteSets, TLC

VARIABLES
    rawLogs,      \* table attendance.raw.log: sequence of records, id = index
    attendances,  \* table hr.attendance: sequence of records, id = index
    result,       \* the dict returned by the last process_raw_logs call
    run,          \* history: one observation per punch of the last batch
    lastOp,       \* history: the last operation and the raw log it ended on
    wpc,          \* concurrent workers: position inside _process_punch
    wlog,         \* concurrent workers: id of the raw log being processed
    wopen,        \* concurrent workers: open_attendance found by the search
    scope,        \* which punches the devices deliver in this behaviour
    nPunches,     \* punches handed to process_raw_logs so far
    shifts,       \* table attendance.shift as the configuration actions write it
    slotCheck,    \* history: the last is_time_in_window call and what it returned
    clock         \* history: fields.Datetime.now() of the last cron sweep

vars == <<rawLogs, attendances, result, run, lastOp, wpc, wlog, wopen, scope, nPunches,
          shifts, slotCheck, clock>>

(***************************************************************************)
(* Bounds of the model                                                     *)
(***************************************************************************)
MaxPunches == 3     \* punches handed to process_raw_logs in one behaviour

(***************************************************************************)
(* Values                                                                  *)
(***************************************************************************)
Null == 0 - 1       \* False / None in a Datetime or Many2one field
NoEmp == "none"     \* no hr.employee record
NoShift == "none"   \* empty attendance.shift recordset

DAY == 24 * 3600
HOUR_SEC == 3600
MIN_SEC == 60

\* ir.config_parameter attendance_gateway.duplicate_threshold, default
DupThreshold == 60

Devices == {"D1", "D2"}
Workers == {1, 2}

\* device.timezone as an offset to UTC, in seconds ('UTC' when unset)
TzOffset(dev) == IF dev = "D2" THEN HOUR_SEC ELSE 0

\* T: 08:00:00 of day 0
T0 == 8 * HOUR_SEC

(***************************************************************************)
(* Employee directory and shift policies (rows the engine only reads)      *)
(***************************************************************************)
\* _find_employee_by_badge: identification_id / barcode / pin = badge
FindEmployeeByBadge(badge) ==
    CASE badge = "B1" -> "E1"
      [] badge = "B2" -> "E2"
      [] OTHER -> NoEmp

\* punch_slot_ids of the slot-mode shift, any stored order
SlotRows ==
    << [punch_type |-> "1", time_from |-> 16 * HOUR_SEC, time_to |-> 18 * HOUR_SEC,
        sequence |-> 40, active |-> TRUE],
       [punch_type |-> "0", time_from |-> 7 * HOUR_SEC, time_to |-> 9 * HOUR_SEC,
        sequence |-> 10, active |-> TRUE],
       [punch_type |-> "2", time_from |-> 12 * HOUR_SEC, time_to |-> 13 * HOUR_SEC,
        sequence |-> 20, active |-> TRUE],
       [punch_type |-> "3", time_from |-> 12 * HOUR_SEC + 30 * MIN_SEC,
        time_to |-> 14 * HOUR_SEC, sequence |-> 30, active |-> TRUE],
       [punch_type |-> "4", time_from |-> 14 * HOUR_SEC + MIN_SEC,
        time_to |-> 15 * HOUR_SEC, sequence |-> 50, active |-> TRUE],
       [punch_type |-> "5", time_from |-> 15 * HOUR_SEC + MIN_SEC,
        time_to |-> 15 * HOUR_SEC + 59 * MIN_SEC, sequence |-> 60, active |-> TRUE],
       [punch_type |-> "1", time_from |-> 7 * HOUR_SEC, time_to |-> 9 * HOUR_SEC,
        sequence |-> 5, active |-> FALSE] >>

\* attendance.shift rows; hour and minute fields are held in seconds
ShiftRow(s) ==
    IF s = "S3"
    THEN [work_hour_from |-> 22 * HOUR_SEC, work_hour_to |-> 6 * HOUR_SEC,
          late_after_sec |-> 15 * MIN_SEC, early_leave_before_sec |-> 15 * MIN_SEC,
          half_day_sec |-> 4 * HOUR_SEC, overtime_after_sec |-> 8 * HOUR_SEC,
          min_gap_sec |-> MIN_SEC, auto_close_sec |-> 20 * HOUR_SEC,
          use_punch_slots |-> FALSE, punch_slot_ids |-> << >>]
    ELSE IF s = "S2"
    THEN [work_hour_from |-> 9 * HOUR_SEC, work_hour_to |-> 17 * HOUR_SEC,
          late_after_sec |-> 15 * MIN_SEC, early_leave_before_sec |-> 15 * MIN_SEC,
          half_day_sec |-> 4 * HOUR_SEC, overtime_after_sec |-> 8 * HOUR_SEC,
          min_gap_sec |-> MIN_SEC, auto_close_sec |-> 16 * HOUR_SEC,
          use_punch_slots |-> TRUE, punch_slot_ids |-> SlotRows]
    ELSE [work_hour_from |-> 9 * HOUR_SEC, work_hour_to |-> 17 * HOUR_SEC,
          late_after_sec |-> 15 * MIN_SEC, early_leave_before_sec |-> 15 * MIN_SEC,
          half_day_sec |-> 4 * HOUR_SEC, overtime_after_sec |-> 8 * HOUR_SEC,
          min_gap_sec |-> MIN_SEC, auto_close_sec |-> 20 * HOUR_SEC,
          use_punch_slots |-> FALSE, punch_slot_ids |-> << >>]

\* get_employee_shift: the employee's shift_id, else the company default
GetEmployeeShift(emp) ==
    CASE emp = "E1" -> "S1"
      [] emp = "E2" -> "S2"
      [] OTHER -> NoShift

\* variant: the shift's own threshold is never read, the default always applies
AutoCloseDefaultOnly(shift) == 16 * HOUR_SEC

\* variant: the gap is handed on in minutes and compared with seconds
MinGapInMinutes(shift) == IF shift = NoShift THEN 1 ELSE ShiftRow(shift).min_gap_sec \div MIN_SEC

MinGapOf(shift) == IF shift = NoShift THEN MIN_SEC ELSE ShiftRow(shift).min_gap_sec
AutoCloseOf(shift) ==
    IF shift = NoShift THEN 16 * HOUR_SEC ELSE ShiftRow(shift).auto_close_sec

(***************************************************************************)
(* hr.attendance: status computation                                       *)
(***************************************************************************)
HasMarker(note, kinds) == \E i \in DOMAIN note : note[i].k \in kinds
CountMarker(note, kind) == Cardinality({i \in DOMAIN note : note[i].k = kind})

\* the note texts that contain the substring 'Auto-closed'
AutoClosedKinds == {"AutoClosed", "CronAutoClosed"}

\* variant: the end of the shift is taken on the check-in date whatever the
\* hours of the policy
BoundariesSameDay(shift, check_date, tz) ==
    LET row == ShiftRow(shift)
        shift_start == check_date * DAY + row.work_hour_from - tz
        shift_end == check_date * DAY + row.work_hour_to - tz
    IN  [shift_start |-> shift_start,
         shift_end |-> shift_end,
         late_threshold |-> shift_start + row.late_after_sec,
         early_leave_threshold |-> shift_end - row.early_leave_before_sec]

\* get_shift_boundaries(check_in.date(), timezone), as UTC seconds
GetShiftBoundaries(shift, check_date, tz) ==
    LET row == ShiftRow(shift)
        night == row.work_hour_to < row.work_hour_from
        shift_start == check_date * DAY + row.work_hour_from - tz
        shift_end == (IF night THEN check_date + 1 ELSE check_date) * DAY
                     + row.work_hour_to - tz
    IN  [shift_start |-> shift_start,
         shift_end |-> shift_end,
         late_threshold |-> shift_start + row.late_after_sec,
         early_leave_threshold |-> shift_end - row.early_leave_before_sec]

Max0(x) == IF x < 0 THEN 0 ELSE x

\* worked_hours is the double seconds / 3600.0, and the quotient is rounded:
\* these are the whole minutes m (up to 120) over an 8.0 h threshold for which
\* ((28800 + 60 * m) / 3600.0 - 8.0) * 60 evaluates to just under m
ShortMinutes ==
    {2, 4, 6, 8, 10, 12, 14, 17, 19, 21, 23, 25, 27, 29, 32, 34, 36, 38, 40, 42,
     44, 47, 49, 51, 53, 55, 57, 59, 62, 64, 66, 68, 70, 72, 74, 79, 81, 83, 85,
     87, 89, 94, 96, 98, 100, 102, 104, 109, 111, 113, 115, 117, 119}

\* int((worked_hours - overtime_after_hours) * 60), for worked > after
OvertimeMinutes(worked, after) ==
    LET minutes == (worked - after) \div MIN_SEC
    IN  IF /\ (worked - after) % MIN_SEC = 0
           /\ after = 8 * HOUR_SEC
           /\ minutes \in ShortMinutes
        THEN minutes - 1
        ELSE minutes

\* variant: the minute fields are the signed differences, thresholds unchecked
ComputeStatusSigned(a) ==
    LET zero == [a EXCEPT !.late_minutes = 0, !.early_leave_minutes = 0,
                          !.overtime_minutes = 0]
        shift == IF a.shift_id # NoShift THEN a.shift_id
                 ELSE GetEmployeeShift(a.employee_id)
    IN  IF a.check_out = Null THEN [zero EXCEPT !.status = "checked_in"]
        ELSE IF HasMarker(a.note, AutoClosedKinds)
             THEN [zero EXCEPT !.status = "auto_closed"]
        ELSE IF shift = NoShift THEN [zero EXCEPT !.status = "on_time"]
        ELSE
          LET row == ShiftRow(shift)
              b == GetShiftBoundaries(shift, a.check_in \div DAY, TzOffset(a.device_id))
              worked == a.check_out - a.check_in
              late == (a.check_in - b.shift_start) \div MIN_SEC
              early == (b.shift_end - a.check_out) \div MIN_SEC
              over == (worked - row.overtime_after_sec) \div MIN_SEC
              status == IF worked < row.half_day_sec THEN "half_day"
                        ELSE IF over > 0 THEN "overtime"
                        ELSE IF late > 0 THEN "late"
                        ELSE IF early > 0 THEN "early_leave"
                        ELSE "on_time"
          IN  [a EXCEPT !.late_minutes = late, !.early_leave_minutes = early,
                        !.overtime_minutes = over, !.status = status]

\* _compute_status on one record
ComputeStatus(a) ==
    LET zero == [a EXCEPT !.late_minutes = 0, !.early_leave_minutes = 0,
                          !.overtime_minutes = 0]
        shift == IF a.shift_id # NoShift THEN a.shift_id
                 ELSE GetEmployeeShift(a.employee_id)
    IN  IF a.check_out = Null THEN [zero EXCEPT !.status = "checked_in"]
        ELSE IF HasMarker(a.note, AutoClosedKinds)
             THEN [zero EXCEPT !.status = "auto_closed"]
        ELSE IF shift = NoShift THEN [zero EXCEPT !.status = "on_time"]
        ELSE
          LET row == ShiftRow(shift)
              b == GetShiftBoundaries(shift, a.check_in \div DAY, TzOffset(a.device_id))
              worked == a.check_out - a.check_in
              late == IF a.check_in > b.late_threshold
                      THEN Max0(a.check_in - b.shift_start) \div MIN_SEC ELSE 0
              early == IF a.check_out < b.early_leave_threshold
                       THEN Max0(b.shift_end - a.check_out) \div MIN_SEC ELSE 0
              over == IF worked > row.overtime_after_sec
                      THEN OvertimeMinutes(worked, row.overtime_after_sec) ELSE 0
              status == IF worked < row.half_day_sec THEN "half_day"
                        ELSE IF over > 0 THEN "overtime"
                        ELSE IF late > 0 THEN "late"
                        ELSE IF early > 0 THEN "early_leave"
                        ELSE "on_time"
          IN  [a EXCEPT !.late_minutes = late, !.early_leave_minutes = early,
                        !.overtime_minutes = over, !.status = status]

\* hr.attendance.create({employee_id, check_in, device_id, shift_id, ...})
NewAttendance(emp, ts, dev, shift) ==
    ComputeStatus([employee_id |-> emp, check_in |-> ts, check_out |-> Null,
                   device_id |-> dev, shift_id |-> shift, note |-> << >>,
                   status |-> "checked_in", late_minutes |-> 0,
                   early_leave_minutes |-> 0, overtime_minutes |-> 0,
                   break_minutes |-> 0])

(***************************************************************************)
(* Session lookup                                                          *)
(***************************************************************************)
OpenIds(atts, emp) ==
    {i \in DOMAIN atts : atts[i].employee_id = emp /\ atts[i].check_out = Null}

\* search([employee_id = emp, check_out = False], order='check_in desc'):
\* the ids that can come first (one id unless two check_in values tie)
OpenCandidates(atts, emp) ==
    {i \in OpenIds(atts, emp) :
        \A j \in OpenIds(atts, emp) : atts[j].check_in <= atts[i].check_in}

\* variant: the search domain lacks the employee
SearchOpenAnyEmployee(atts, emp) ==
    LET ids == {i \in DOMAIN atts : atts[i].check_out = Null}
    IN  IF ids = {} THEN 0 ELSE CHOOSE i \in ids : \A j \in ids : j <= i

\* ... limit=1: the record found, 0 for the empty recordset
SearchOpen(atts, emp) ==
    IF OpenIds(atts, emp) = {} THEN 0
    ELSE CHOOSE i \in OpenCandidates(atts, emp) :
            \A j \in OpenCandidates(atts, emp) : j <= i

(***************************************************************************)
(* Auto-close of a stale open session                                      *)
(***************************************************************************)
\* variant: the stale session is closed one minute before the punch
CloseBeforePunch(a, ts, auto_sec) ==
    ComputeStatus([a EXCEPT !.check_out = ts - MIN_SEC,
                            !.note = Append(@, [k |-> "AutoClosed", hm |-> 0])])

\* the write of _auto_close_stale_attendance, then _compute_status
CloseStale(a, ts, auto_sec) ==
    LET close0 == a.check_in + auto_sec
        close_time == IF close0 > ts THEN ts - MIN_SEC ELSE close0
    IN  ComputeStatus([a EXCEPT !.check_out = close_time,
                                !.note = Append(@, [k |-> "AutoClosed", hm |-> 0])])

\* variant: the age is divided by 60 instead of 3600 and compared as hours
AutoCloseUnitSlip(atts, emp, ts, auto_sec) ==
    LET open == SearchOpen(atts, emp)
    IN  IF open = 0 THEN atts
        ELSE IF (ts - atts[open].check_in) * MIN_SEC > auto_sec * HOUR_SEC
             THEN [atts EXCEPT ![open] = CloseStale(@, ts, auto_sec)]
             ELSE atts

\* _auto_close_stale_attendance(employee, current_timestamp, auto_close_hours)
AutoCloseStaleAttendance(atts, emp, ts, auto_sec) ==
    LET open == SearchOpen(atts, emp)
    IN  IF open = 0 THEN atts
        ELSE IF ts - atts[open].check_in > auto_sec
             THEN [atts EXCEPT ![open] = CloseStale(@, ts, auto_sec)]
             ELSE atts

(***************************************************************************)
(* Toggle mode                                                             *)
(***************************************************************************)
\* variant: every punch opens a session, whatever the search found
ToggleAlwaysCheckIn(logs, atts, id, emp, ts, shift, dev, min_gap, open) ==
    [logs |-> [logs EXCEPT ![id].state = "processed", ![id].punch_type = "0",
                           ![id].attendance_id = Len(atts) + 1,
                           ![id].message = "Check-in created"],
     atts |-> Append(atts, NewAttendance(emp, ts, dev, shift)),
     res |-> "success"]

\* variant: the toggle closes the open session whatever the elapsed time
ToggleNoGap(logs, atts, id, emp, ts, shift, dev, min_gap, open) ==
    IF open = 0
    THEN [logs |-> [logs EXCEPT ![id].state = "processed", ![id].punch_type = "0",
                                ![id].attendance_id = Len(atts) + 1,
                                ![id].message = "Check-in created"],
          atts |-> Append(atts, NewAttendance(emp, ts, dev, shift)),
          res |-> "success"]
    ELSE [logs |-> [logs EXCEPT ![id].state = "processed", ![id].punch_type = "1",
                                ![id].attendance_id = open,
                                ![id].message = "Check-out"],
          atts |-> [atts EXCEPT ![open] = ComputeStatus([@ EXCEPT !.check_out = ts])],
          res |-> "success"]

\* _process_simple_toggle, open being the open_attendance its search found
ProcessSimpleToggle(logs, atts, id, emp, ts, shift, dev, min_gap, open) ==
    IF open = 0
    THEN [logs |-> [logs EXCEPT ![id].state = "processed", ![id].punch_type = "0",
                                ![id].attendance_id = Len(atts) + 1,
                                ![id].message = "Check-in created"],
          atts |-> Append(atts, NewAttendance(emp, ts, dev, shift)),
          res |-> "success"]
    ELSE IF ts - atts[open].check_in < min_gap
    THEN [logs |-> [logs EXCEPT ![id].state = "ignored", ![id].punch_type = "0",
                                ![id].message = "Ignored: too soon since check-in"],
          atts |-> atts,
          res |-> "ignored"]
    ELSE [logs |-> [logs EXCEPT ![id].state = "processed", ![id].punch_type = "1",
                                ![id].attendance_id = open,
                                ![id].message = "Check-out"],
          atts |-> [atts EXCEPT ![open] = ComputeStatus([@ EXCEPT !.check_out = ts])],
          res |-> "success"]

(***************************************************************************)
(* Slot mode                                                               *)
(***************************************************************************)
\* AttendancePunchSlot.is_time_in_window(check_time, timezone)
IsTimeInWindow(slot, ts, tz) ==
    LET current_hour == (ts + tz) % DAY
    IN  IF slot.time_to <= slot.time_from
        THEN current_hour >= slot.time_from \/ current_hour <= slot.time_to
        ELSE slot.time_from <= current_hour /\ current_hour <= slot.time_to

\* variant: the slots are not filtered by active
SlotTypeOfAnySlot(shift, ts, tz) ==
    LET slots == ShiftRow(shift).punch_slot_ids
        hits == {i \in DOMAIN slots : IsTimeInWindow(slots[i], ts, tz)}
    IN  IF hits = {} THEN "none"
        ELSE LET first == CHOOSE i \in hits : \A j \in hits :
                              \/ slots[i].sequence < slots[j].sequence
                              \/ /\ slots[i].sequence = slots[j].sequence
                                 /\ i <= j
             IN  slots[first].punch_type

\* _get_slot_punch_type: first active slot, by sequence, holding the time
GetSlotPunchType(shift, ts, tz) ==
    LET slots == ShiftRow(shift).punch_slot_ids
        hits == {i \in DOMAIN slots : slots[i].active /\ IsTimeInWindow(slots[i], ts, tz)}
    IN  IF hits = {} THEN "none"
        ELSE LET first == CHOOSE i \in hits : \A j \in hits :
                              \/ slots[i].sequence < slots[j].sequence
                              \/ /\ slots[i].sequence = slots[j].sequence
                                 /\ i <= j
             IN  slots[first].punch_type

\* variant: the ignoring branch returns without writing the raw log
IgnoredUnwritten(logs, atts, id, msg) ==
    [logs |-> logs, atts |-> atts, res |-> "ignored"]

Ignored(logs, atts, id, msg) ==
    [logs |-> [logs EXCEPT ![id].state = "ignored", ![id].message = msg],
     atts |-> atts, res |-> "ignored"]

\* variant: the processed log is linked to the newest session of the table
ProcessedNewest(logs, atts, id, open, msg) ==
    [logs |-> [logs EXCEPT ![id].state = "processed", ![id].attendance_id = Len(atts),
                           ![id].message = msg],
     atts |-> atts, res |-> "success"]

Processed(logs, atts, id, open, msg) ==
    [logs |-> [logs EXCEPT ![id].state = "processed", ![id].attendance_id = open,
                           ![id].message = msg],
     atts |-> atts, res |-> "success"]

\* _slot_check_in
SlotCheckIn(logs, atts, id, emp, ts, shift, dev, open) ==
    IF open # 0 THEN Ignored(logs, atts, id, "Already checked in")
    ELSE Processed(logs, Append(atts, NewAttendance(emp, ts, dev, shift)), id,
                   Len(atts) + 1, "Check-in created")

\* _slot_check_out
SlotCheckOut(logs, atts, id, ts, open, min_gap) ==
    IF open = 0 THEN Ignored(logs, atts, id, "Check Out ignored: No active check-in")
    ELSE IF ts - atts[open].check_in < min_gap
    THEN Ignored(logs, atts, id, "Ignored: too soon since check-in")
    ELSE Processed(logs,
                   [atts EXCEPT ![open] = ComputeStatus([@ EXCEPT !.check_out = ts])],
                   id, open, "Check-out")

\* strftime('%H:%M') of the (UTC) punch time, as minutes of the day
HourMinute(ts) == (ts % DAY) \div MIN_SEC

\* variant: break-out without the test for a break that is still open
BreakOutUnchecked(logs, atts, id, ts, open) ==
    IF open = 0 THEN Ignored(logs, atts, id, "Break Out ignored: No active check-in")
    ELSE Processed(logs,
                   [atts EXCEPT ![open].note =
                       Append(@, [k |-> "BreakOut", hm |-> HourMinute(ts)])],
                   id, open, "Break started")

\* variant: the marker is written although the punch is ignored as a second
\* break-out
BreakOutMarksAnyway(logs, atts, id, ts, open) ==
    IF open = 0 THEN Ignored(logs, atts, id, "Break Out ignored: No active check-in")
    ELSE IF CountMarker(atts[open].note, "BreakOut") > CountMarker(atts[open].note, "BreakIn")
    THEN Ignored(logs,
                 [atts EXCEPT ![open].note =
                     Append(@, [k |-> "BreakOut", hm |-> HourMinute(ts)])],
                 id, "Break Out ignored: Already on break")
    ELSE Processed(logs,
                   [atts EXCEPT ![open].note =
                       Append(@, [k |-> "BreakOut", hm |-> HourMinute(ts)])],
                   id, open, "Break started")

\* _slot_break_out
SlotBreakOut(logs, atts, id, ts, open) ==
    IF open = 0 THEN Ignored(logs, atts, id, "Break Out ignored: No active check-in")
    ELSE IF CountMarker(atts[open].note, "BreakOut") > CountMarker(atts[open].note, "BreakIn")
    THEN Ignored(logs, atts, id, "Break Out ignored: Already on break")
    ELSE Processed(logs,
                   [atts EXCEPT ![open].note =
                       Append(@, [k |-> "BreakOut", hm |-> HourMinute(ts)])],
                   id, open, "Break started")

\* the hm of the last 'Break Out: HH:MM' of the note
LastBreakOut(note) ==
    LET outs == {i \in DOMAIN note : note[i].k = "BreakOut"}
    IN  note[CHOOSE i \in outs : \A j \in outs : j <= i].hm

\* _slot_break_in
SlotBreakIn(logs, atts, id, ts, open) ==
    IF open = 0 THEN Ignored(logs, atts, id, "Break In ignored: No active check-in")
    ELSE IF CountMarker(atts[open].note, "BreakOut") <= CountMarker(atts[open].note, "BreakIn")
    THEN Ignored(logs, atts, id, "Break In ignored: Not on break")
    ELSE LET d0 == HourMinute(ts) - LastBreakOut(atts[open].note)
             break_duration == IF d0 < 0 THEN d0 + 24 * 60 ELSE d0
             a1 == IF break_duration > 0
                   THEN [atts[open] EXCEPT !.break_minutes = @ + break_duration]
                   ELSE atts[open]
             a2 == [a1 EXCEPT !.note = Append(@, [k |-> "BreakIn", hm |-> HourMinute(ts)])]
         IN  Processed(logs, [atts EXCEPT ![open] = a2], id, open, "Break ended")

\* variant: the overtime-start punch also closes the session
OvertimeStartClosesSession(logs, atts, id, ts, open) ==
    IF open = 0 THEN Ignored(logs, atts, id, "Overtime Start ignored: No active check-in")
    ELSE IF CountMarker(atts[open].note, "OTStart") > CountMarker(atts[open].note, "OTEnd")
    THEN Ignored(logs, atts, id, "Overtime Start ignored: Already in overtime")
    ELSE Processed(logs,
                   [atts EXCEPT ![open].note =
                                    Append(@, [k |-> "OTStart", hm |-> HourMinute(ts)]),
                                ![open].check_out = ts],
                   id, open, "Overtime started")

\* _slot_overtime_start
SlotOvertimeStart(logs, atts, id, ts, open) ==
    IF open = 0 THEN Ignored(logs, atts, id, "Overtime Start ignored: No active check-in")
    ELSE IF CountMarker(atts[open].note, "OTStart") > CountMarker(atts[open].note, "OTEnd")
    THEN Ignored(logs, atts, id, "Overtime Start ignored: Already in overtime")
    ELSE Processed(logs,
                   [atts EXCEPT ![open].note =
                       Append(@, [k |-> "OTStart", hm |-> HourMinute(ts)])],
                   id, open, "Overtime started")

\* variant: overtime-end without the test for an overtime that was started
OvertimeEndUnchecked(logs, atts, id, ts, open) ==
    IF open = 0 THEN Ignored(logs, atts, id, "Overtime End ignored: No active check-in")
    ELSE Processed(logs,
                   [atts EXCEPT ![open].note =
                       Append(@, [k |-> "OTEnd", hm |-> HourMinute(ts)])],
                   id, open, "Overtime ended")

\* _slot_overtime_end
SlotOvertimeEnd(logs, atts, id, ts, open) ==
    IF open = 0 THEN Ignored(logs, atts, id, "Overtime End ignored: No active check-in")
    ELSE IF CountMarker(atts[open].note, "OTStart") <= CountMarker(atts[open].note, "OTEnd")
    THEN Ignored(logs, atts, id, "Overtime End ignored: No overtime started")
    ELSE Processed(logs,
                   [atts EXCEPT ![open].note =
                       Append(@, [k |-> "OTEnd", hm |-> HourMinute(ts)])],
                   id, open, "Overtime ended")

\* variant: a time outside every slot falls back to the toggle logic
SlotsWithToggleFallback(logs, atts, id, emp, ts, shift, dev, min_gap, open) ==
    LET slot_punch_type == GetSlotPunchType(shift, ts, TzOffset(dev))
        logs1 == [logs EXCEPT ![id].punch_type = slot_punch_type]
    IN  CASE slot_punch_type = "0" -> SlotCheckIn(logs1, atts, id, emp, ts, shift, dev, open)
          [] slot_punch_type = "1" -> SlotCheckOut(logs1, atts, id, ts, open, min_gap)
          [] slot_punch_type = "2" -> SlotBreakOut(logs1, atts, id, ts, open)
          [] slot_punch_type = "3" -> SlotBreakIn(logs1, atts, id, ts, open)
          [] slot_punch_type = "4" -> SlotOvertimeStart(logs1, atts, id, ts, open)
          [] slot_punch_type = "5" -> SlotOvertimeEnd(logs1, atts, id, ts, open)
          [] OTHER -> ProcessSimpleToggle(logs, atts, id, emp, ts, shift, dev, min_gap, open)

\* _process_with_slots, open being the open_attendance its search found
ProcessWithSlots(logs, atts, id, emp, ts, shift, dev, min_gap, open) ==
    LET slot_punch_type == GetSlotPunchType(shift, ts, TzOffset(dev))
        logs1 == [logs EXCEPT ![id].punch_type = slot_punch_type]
    IN  CASE slot_punch_type = "none" -> Ignored(logs, atts, id, "No matching time slot")
          [] slot_punch_type = "0" -> SlotCheckIn(logs1, atts, id, emp, ts, shift, dev, open)
          [] slot_punch_type = "1" -> SlotCheckOut(logs1, atts, id, ts, open, min_gap)
          [] slot_punch_type = "2" -> SlotBreakOut(logs1, atts, id, ts, open)
          [] slot_punch_type = "3" -> SlotBreakIn(logs1, atts, id, ts, open)
          [] slot_punch_type = "4" -> SlotOvertimeStart(logs1, atts, id, ts, open)
          [] slot_punch_type = "5" -> SlotOvertimeEnd(logs1, atts, id, ts, open)
          [] OTHER -> [logs |-> [logs1 EXCEPT ![id].state = "error",
                                               ![id].message = "Unknown punch type"],
                       atts |-> atts, res |-> "failed"]

(***************************************************************************)
(* _process_punch                                                          *)
(***************************************************************************)
\* STEP 4: the mode, open being the open_attendance the mode's search found
ProcessMode(logs, atts, id, emp, ts, shift, dev, open) ==
    IF shift # NoShift /\ ShiftRow(shift).use_punch_slots
    THEN ProcessWithSlots(logs, atts, id, emp, ts, shift, dev, MinGapOf(shift), open)
    ELSE ProcessSimpleToggle(logs, atts, id, emp, ts, shift, dev, MinGapOf(shift), open)

\* STEP 4 in one transaction: the search and the mode with nothing in between
Classify(logs, atts, id, emp, ts, shift, dev) ==
    ProcessMode(logs, atts, id, emp, ts, shift, dev, SearchOpen(atts, emp))

\* _process_punch(raw_log, device_user, device); mid is the session table the
\* classifier was given (after STEP 3), << >> when the punch never got there
\* the outcome of STEP 4, with the session table it was given
Classified(r, atts1) ==
    [logs |-> r.logs, atts |-> r.atts, res |-> r.res, classified |-> TRUE, mid |-> atts1]

\* STEP 4 on the session table STEP 3 left
ClassifyAfterAutoClose(logs1, atts1, id, emp, ts, shift, dev) ==
    Classified(Classify(logs1, atts1, id, emp, ts, shift, dev), atts1)

\* STEP 2-4 for the employee found
ProcessPunchOf(logs, atts, id, dev, emp, shift) ==
    ClassifyAfterAutoClose([logs EXCEPT ![id].employee_id = emp],
        AutoCloseStaleAttendance(atts, emp, logs[id].timestamp, AutoCloseOf(shift)),
        id, emp, logs[id].timestamp, shift, dev)

\* variant: a badge without employee is handled as the first employee's
UnknownBadgeAsFirstEmployee(logs, atts, id, dev, emp) ==
    ProcessPunchOf(logs, atts, id, dev, IF emp = NoEmp THEN "E1" ELSE emp,
                   GetEmployeeShift(IF emp = NoEmp THEN "E1" ELSE emp))

\* STEP 1 done: emp is the employee of the badge, NoEmp if none
ProcessPunchAs(logs, atts, id, dev, emp) ==
    IF emp = NoEmp
    THEN [logs |-> [logs EXCEPT ![id].state = "error",
                                ![id].message = "No employee found"],
          atts |-> atts, res |-> "failed", classified |-> FALSE, mid |-> atts]
    ELSE ProcessPunchOf(logs, atts, id, dev, emp, GetEmployeeShift(emp))

ProcessPunch(logs, atts, id, dev) ==
    ProcessPunchAs(logs, atts, id, dev, FindEmployeeByBadge(logs[id].device_user_id))

(***************************************************************************)
(* process_raw_logs                                                        *)
(***************************************************************************)
\* variant: the exact search carries the state filter of the window search
ExactDuplicateLive(logs, dev, badge, ts) ==
    \E i \in DOMAIN logs :
        /\ logs[i].device_id = dev
        /\ logs[i].device_user_id = badge
        /\ logs[i].timestamp = ts
        /\ logs[i].state \in {"processed", "pending"}

\* search([device_id, device_user_id, timestamp = ts], limit=1)
ExactDuplicate(logs, dev, badge, ts) ==
    \E i \in DOMAIN logs :
        /\ logs[i].device_id = dev
        /\ logs[i].device_user_id = badge
        /\ logs[i].timestamp = ts

\* variant: the window search only sees logs still pending
NearDuplicatePendingOnly(logs, dev, badge, ts) ==
    \E i \in DOMAIN logs :
        /\ logs[i].device_id = dev
        /\ logs[i].device_user_id = badge
        /\ logs[i].timestamp >= ts - DupThreshold
        /\ logs[i].timestamp <= ts + DupThreshold
        /\ logs[i].state = "pending"

\* variant: the window search leaves its two bounds out
NearDuplicateExclusive(logs, dev, badge, ts) ==
    \E i \in DOMAIN logs :
        /\ logs[i].device_id = dev
        /\ logs[i].device_user_id = badge
        /\ logs[i].timestamp > ts - DupThreshold
        /\ logs[i].timestamp < ts + DupThreshold
        /\ logs[i].state \in {"processed", "pending"}

\* search([device_id, device_user_id, ts - W <= timestamp <= ts + W,
\*         state in (processed, pending)], limit=1)
NearDuplicate(logs, dev, badge, ts) ==
    \E i \in DOMAIN logs :
        /\ logs[i].device_id = dev
        /\ logs[i].device_user_id = badge
        /\ logs[i].timestamp >= ts - DupThreshold
        /\ logs[i].timestamp <= ts + DupThreshold
        /\ logs[i].state \in {"processed", "pending"}

\* the selection of attendance.raw.log.punch_type; create raises on any other value
RawLogPunchTypes == {"0", "1", "2", "3", "4", "5"}

\* attendance.raw.log.create({... 'state': 'pending'})
NewRawLog(dev, p) ==
    [device_id |-> dev, device_user_id |-> p.device_user_id,
     timestamp |-> p.timestamp, punch_type |-> p.punch_type, state |-> "pending",
     employee_id |-> NoEmp, attendance_id |-> 0, message |-> ""]

\* sorted(raw_logs, key=timestamp): stable; a None key among two or more
\* entries makes the comparison raise, and the batch stays as it came
InsertByTimestamp(sorted, x) ==
    LET k == Cardinality({i \in DOMAIN sorted : sorted[i].timestamp <= x.timestamp})
    IN  SubSeq(sorted, 1, k) \o <<x>> \o SubSeq(sorted, k + 1, Len(sorted))

RECURSIVE SortedPrefix(_, _)
SortedPrefix(seq, n) ==
    IF n = 0 THEN << >> ELSE InsertByTimestamp(SortedPrefix(seq, n - 1), seq[n])

SortByTimestamp(seq) ==
    IF Len(seq) >= 2 /\ \E i \in DOMAIN seq : seq[i].timestamp = Null
    THEN seq
    ELSE SortedPrefix(seq, Len(seq))

\* lines 96-103: the counter of result a processed punch adds to
Counted(r) ==
    [logs |-> r.logs, atts |-> r.atts,
     outcome |-> CASE r.res = "success" -> "processed"
                   [] r.res = "ignored" -> "ignored"
                   [] OTHER -> "failed",
     classified |-> r.classified, mid |-> r.mid]

\* the body of the for loop of process_raw_logs on one entry; the outcome is
\* the counter of result it adds to
ProcessLogData(logs, atts, dev, p) ==
    LET skip(o) == [logs |-> logs, atts |-> atts, outcome |-> o,
                    classified |-> FALSE, mid |-> atts]
    IN  IF p.device_user_id = "" THEN skip("failed")
        ELSE IF p.timestamp = Null THEN skip("failed")
        ELSE IF ExactDuplicate(logs, dev, p.device_user_id, p.timestamp)
        THEN skip("duplicates")
        ELSE IF NearDuplicate(logs, dev, p.device_user_id, p.timestamp)
        THEN skip("duplicates")
        ELSE IF p.punch_type \notin RawLogPunchTypes THEN skip("failed")
        ELSE Counted(ProcessPunch(Append(logs, NewRawLog(dev, p)), atts,
                                  Len(logs) + 1, dev))

Observation(dev, p, logs, atts, r) ==
    [device_id |-> dev, device_user_id |-> p.device_user_id,
     timestamp |-> p.timestamp, punch_type |-> p.punch_type, outcome |-> r.outcome,
     pre_logs |-> logs, pre_atts |-> atts,
     classified |-> r.classified, mid_atts |-> r.mid,
     post_logs |-> r.logs, post_atts |-> r.atts]

\* variant: an entry skipped as duplicate is left out of the counters
IteratedUncountedDuplicate(s, dev, p, r) ==
    [logs |-> r.logs, atts |-> r.atts,
     run |-> Append(s.run, Observation(dev, p, s.logs, s.atts, r)),
     result |-> IF r.outcome = "duplicates" THEN s.result
                ELSE [s.result EXCEPT ![r.outcome] = @ + 1]]

\* one iteration, s holding the tables, counters and history so far
Iterated(s, dev, p, r) ==
    [logs |-> r.logs, atts |-> r.atts,
     run |-> Append(s.run, Observation(dev, p, s.logs, s.atts, r)),
     result |-> [s.result EXCEPT ![r.outcome] = @ + 1]]

\* the loop body on entry p, after the iterations summed up in s
ProcessEntry(s, dev, p) == Iterated(s, dev, p, ProcessLogData(s.logs, s.atts, dev, p))

\* the for loop over the first n entries of the sorted batch
RECURSIVE ProcessEntries(_, _, _, _, _)
ProcessEntries(logs, atts, dev, seq, n) ==
    IF n = 0
    THEN [logs |-> logs, atts |-> atts, run |-> << >>,
          result |-> [fetched |-> Len(seq), processed |-> 0, failed |-> 0,
                      duplicates |-> 0, ignored |-> 0]]
    ELSE ProcessEntry(ProcessEntries(logs, atts, dev, seq, n - 1), dev, seq[n])

(***************************************************************************)
(* Inputs                                                                  *)
(***************************************************************************)
ToggleTimes == {T0, T0 + 30, T0 + 60, T0 + 20 * HOUR_SEC + 30, T0 + 21 * HOUR_SEC}
SlotTimes == {T0, 12 * HOUR_SEC + 10 * MIN_SEC, 12 * HOUR_SEC + 45 * MIN_SEC,
              13 * HOUR_SEC + 10 * MIN_SEC, 17 * HOUR_SEC, 3 * HOUR_SEC, DAY + T0,
              DAY + 3 * HOUR_SEC}

\* what the device reports as punch type (attendance.punch of the adapter)
DeviceType(ts) == IF ts % MIN_SEC = 0 THEN "0" ELSE "1"

\* the punches a device can deliver in a behaviour of the given scope
Punch(badge, t) == [device_user_id |-> badge, timestamp |-> t, punch_type |-> DeviceType(t)]

PunchesOf(sc, dev) ==
    CASE sc = "toggle" ->
            IF dev = "D1"
            THEN {Punch("B1", t) : t \in ToggleTimes}
            ELSE {Punch("B1", T0 + 30), Punch("B1", T0 + 60)}
      [] sc = "slots" ->
            IF dev = "D1"
            THEN {Punch("B2", t) : t \in SlotTimes}
            ELSE {Punch("B2", T0), Punch("B2", 12 * HOUR_SEC + 10 * MIN_SEC)}
      [] OTHER ->
            IF dev = "D1"
            THEN {Punch("B1", T0), Punch("B1", T0 + 60), Punch("B2", T0),
                  Punch("B2", 17 * HOUR_SEC), Punch("B9", T0), Punch("B9", Null),
                  [Punch("B1", T0) EXCEPT !.punch_type = "255"]}
            ELSE {}

Scopes == {"toggle", "slots", "mixed"}

Batches(sc, dev, max) == UNION {[1..n -> PunchesOf(sc, dev)] : n \in 1..max}

(***************************************************************************)
(* Sequential operations                                                   *)
(***************************************************************************)
WorkersIdle == \A w \in Workers : wpc[w] = "idle"

\* process_raw_logs(device, raw_logs)
\* the state a process_raw_logs call of n entries leaves, s being its loop's end
Commit(s, n) ==
    /\ nPunches' = nPunches + n
    /\ rawLogs' = s.logs
    /\ attendances' = s.atts
    /\ result' = s.result
    /\ run' = s.run
    /\ lastOp' = [op |-> "batch", again |-> FALSE,
                  log |-> IF Len(s.logs) > Len(rawLogs) THEN Len(s.logs) ELSE 0]

ProcessRawLogs(dev, batch) ==
    /\ WorkersIdle
    /\ Commit(ProcessEntries(rawLogs, attendances, dev, SortByTimestamp(batch),
                             Len(batch)), Len(batch))
    /\ UNCHANGED <<wpc, wlog, wopen, scope, shifts, slotCheck, clock>>

\* variant: the filter lets processed logs through as well
ReprocessAnyState(state) == state \in {"pending", "error", "ignored", "processed"}

\* the filter of action_reprocess
ReprocessFilter(state) == state \in {"pending", "error", "ignored"}

\* the writes of a punch's processing reach the two tables
Store(r) == rawLogs' = r.logs /\ attendances' = r.atts

\* action_reprocess on one raw log: reset, then process_single_log
ActionReprocess(id) ==
    /\ WorkersIdle
    /\ IF ReprocessFilter(rawLogs[id].state)
       THEN Store(ProcessPunch(
                [rawLogs EXCEPT ![id].state = "pending", ![id].message = "",
                                ![id].attendance_id = 0],
                attendances, id, rawLogs[id].device_id))
       ELSE UNCHANGED <<rawLogs, attendances>>
    /\ lastOp' = [op |-> "reprocess", log |-> id, again |-> lastOp.log = id]
    /\ UNCHANGED <<result, run, wpc, wlog, wopen, scope, nPunches, shifts, slotCheck, clock>>

Init ==
    /\ rawLogs = << >>
    /\ attendances = << >>
    /\ result = [fetched |-> 0, processed |-> 0, failed |-> 0, duplicates |-> 0,
                 ignored |-> 0]
    /\ run = << >>
    /\ lastOp = [op |-> "init", log |-> 0, again |-> FALSE]
    /\ wpc = [w \in Workers |-> "idle"]
    /\ wlog = [w \in Workers |-> 0]
    /\ wopen = [w \in Workers |-> 0]
    /\ scope \in Scopes
    /\ nPunches = 0
    /\ shifts = << >>
    /\ clock = Null
    /\ slotCheck = [called |-> FALSE, time_from |-> 0, time_to |-> 0, current_hour |-> 0,
                    inside |-> FALSE]

Next ==
    \/ \E dev \in Devices : \E batch \in Batches(scope, dev, MaxPunches - nPunches) : ProcessRawLogs(dev, batch)
    \/ \E id \in DOMAIN rawLogs : ActionReprocess(id)

Spec == Init /\ [][Next]_vars

(***************************************************************************)
(* Concurrent batches: each worker is a process_raw_logs call in its own   *)
(* transaction; a step is one ORM call (or a run of calls that touch only  *)
(* the worker's own raw log).  Nothing in the code takes a lock.           *)
(***************************************************************************)
MaxConcLogs == 2    \* raw logs persisted in one concurrent behaviour

\* lines 43-92: the dedup searches and the create of the pending raw log
WorkerBegin(w, dev, p) ==
    /\ wpc[w] = "idle"
    /\ Len(rawLogs) < MaxConcLogs
    /\ p.device_user_id # "" /\ p.timestamp # Null
    /\ p.punch_type \in RawLogPunchTypes
    /\ ~ExactDuplicate(rawLogs, dev, p.device_user_id, p.timestamp)
    /\ ~NearDuplicate(rawLogs, dev, p.device_user_id, p.timestamp)
    /\ rawLogs' = Append(rawLogs, NewRawLog(dev, p))
    /\ wlog' = [wlog EXCEPT ![w] = Len(rawLogs) + 1]
    /\ wpc' = [wpc EXCEPT ![w] = "resolve"]
    /\ lastOp' = [op |-> "worker", log |-> 0, again |-> FALSE]
    /\ UNCHANGED <<attendances, result, run, wopen, scope, nPunches, shifts, slotCheck, clock>>

\* _process_punch STEP 1-3: employee, shift, auto-close of a stale session
WorkerAutoClose(w) ==
    LET id == wlog[w]
        emp == FindEmployeeByBadge(rawLogs[id].device_user_id)
    IN  /\ wpc[w] = "resolve"
        /\ IF emp = NoEmp
           THEN /\ rawLogs' = [rawLogs EXCEPT ![id].state = "error",
                                              ![id].message = "No employee found"]
                /\ wpc' = [wpc EXCEPT ![w] = "idle"]
                /\ UNCHANGED attendances
           ELSE /\ rawLogs' = [rawLogs EXCEPT ![id].employee_id = emp]
                /\ attendances' = AutoCloseStaleAttendance(attendances, emp,
                                      rawLogs[id].timestamp,
                                      AutoCloseOf(GetEmployeeShift(emp)))
                /\ wpc' = [wpc EXCEPT ![w] = "search"]
        /\ UNCHANGED <<result, run, lastOp, wlog, wopen, scope, nPunches, shifts, slotCheck, clock>>

\* the search for the open session at the head of either mode
WorkerSearch(w) ==
    LET emp == rawLogs[wlog[w]].employee_id
    IN  /\ wpc[w] = "search"
        /\ \/ /\ OpenIds(attendances, emp) = {}
              /\ wopen' = [wopen EXCEPT ![w] = 0]
           \/ \E i \in OpenCandidates(attendances, emp) :
                 wopen' = [wopen EXCEPT ![w] = i]
        /\ wpc' = [wpc EXCEPT ![w] = "mode"]
        /\ UNCHANGED <<rawLogs, attendances, result, run, lastOp, wlog, scope, nPunches, shifts, slotCheck, clock>>

\* the rest of the mode, on the open_attendance found earlier
WorkerMode(w) ==
    LET id == wlog[w]
        emp == rawLogs[id].employee_id
    IN  /\ wpc[w] = "mode"
        /\ Store(ProcessMode(rawLogs, attendances, id, emp, rawLogs[id].timestamp,
                                   GetEmployeeShift(emp), rawLogs[id].device_id, wopen[w]))
        /\ wpc' = [wpc EXCEPT ![w] = "idle"]
        /\ wopen' = [wopen EXCEPT ![w] = 0]
        /\ wlog' = [wlog EXCEPT ![w] = 0]
        /\ UNCHANGED <<result, run, lastOp, scope, nPunches, shifts, slotCheck, clock>>

NextConc ==
    \/ \E w \in Workers, dev \in Devices :
          \E p \in PunchesOf(scope, dev) : WorkerBegin(w, dev, p)
    \/ \E w \in Workers : WorkerAutoClose(w)
    \/ \E w \in Workers : WorkerSearch(w)
    \/ \E w \in Workers : WorkerMode(w)

SpecConc == Init /\ [][NextConc]_vars

(***************************************************************************)
(* Status of a session on its own: a session is written with given times   *)
(* (by the engine, or by hand in the attendance form) and _compute_status  *)
(* runs on it as the fields it depends on change.                          *)
(***************************************************************************)
StatusCheckIns == {9 * HOUR_SEC, 9 * HOUR_SEC + 10 * MIN_SEC, 9 * HOUR_SEC + 20 * MIN_SEC,
                   21 * HOUR_SEC + 30 * MIN_SEC, 22 * HOUR_SEC}
StatusCheckOuts == {Null, 10 * HOUR_SEC, 16 * HOUR_SEC, 17 * HOUR_SEC,
                    17 * HOUR_SEC + 30, 17 * HOUR_SEC + 30 * MIN_SEC,
                    DAY + 5 * HOUR_SEC, DAY + 6 * HOUR_SEC}
StatusShifts == {"S1", "S3", NoShift}

\* create / write of one hr.attendance record, then _compute_status
WriteSession(dev, shift, ci, co, marked) ==
    /\ WorkersIdle
    /\ attendances = << >>
    /\ co = Null \/ co > ci
    /\ attendances' =
          << ComputeStatus([employee_id |-> "E1", check_in |-> ci, check_out |-> co,
                            device_id |-> dev, shift_id |-> shift,
                            note |-> IF marked THEN <<[k |-> "AutoClosed", hm |-> 0]>>
                                     ELSE << >>,
                            status |-> "checked_in", late_minutes |-> 0,
                            early_leave_minutes |-> 0, overtime_minutes |-> 0,
                            break_minutes |-> 0]) >>
    /\ lastOp' = [op |-> "write", log |-> 0, again |-> FALSE]
    /\ UNCHANGED <<rawLogs, result, run, wpc, wlog, wopen, scope, nPunches, shifts, slotCheck, clock>>

NextStatus ==
    \E dev \in Devices, shift \in StatusShifts, ci \in StatusCheckIns,
       co \in StatusCheckOuts, marked \in BOOLEAN :
        WriteSession(dev, shift, ci, co, marked)

SpecStatus == Init /\ [][NextStatus]_vars

(***************************************************************************)
(* Shift policies: create and write of attendance.shift with the           *)
(* constraints the ORM runs for the fields of the call                     *)
(***************************************************************************)
MaxShifts == 2      \* attendance.shift records created in one behaviour

Companies == {"C1", "C2"}
NoCompany == "none"   \* company_id = False

\* _check_single_default on record id; the search leaves archived records out
CheckSingleDefault(t, id) ==
    t[id].is_default
    => ~\E j \in DOMAIN t : /\ j # id
                            /\ t[j].active
                            /\ t[j].is_default
                            /\ t[j].company_id = t[id].company_id

\* _check_min_punch_gap
CheckMinPunchGap(t, id) == t[id].min_punch_gap_minutes >= 0

\* _check_auto_checkout
CheckAutoCheckout(t, id) == t[id].auto_checkout_after_hours >= 1

\* the values a create or write call can carry for a field
ShiftValues(f) ==
    CASE f = "company_id" -> Companies \cup {NoCompany}
      [] f = "is_default" -> BOOLEAN
      [] f = "active" -> BOOLEAN
      [] f = "min_punch_gap_minutes" -> {0 - 1, 0}
      [] OTHER -> {0, 1}

ShiftFields ==
    {"company_id", "is_default", "active", "min_punch_gap_minutes",
     "auto_checkout_after_hours"}

\* api.constrains: the checks whose fields are among those of the call
ConstraintsOf(fs, t, id) ==
    /\ "is_default" \in fs => CheckSingleDefault(t, id)
    /\ "min_punch_gap_minutes" \in fs => CheckMinPunchGap(t, id)
    /\ "auto_checkout_after_hours" \in fs => CheckAutoCheckout(t, id)

\* a ValidationError rolls the call back
Validated(ok, t) ==
    /\ shifts' = IF ok THEN t ELSE shifts
    /\ UNCHANGED <<rawLogs, attendances, result, run, wpc, wlog, wopen, scope, nPunches, slotCheck, clock>>

\* attendance.shift create(vals): every field is set, from vals or its default
CreateShift(vals) ==
    /\ WorkersIdle
    /\ Len(shifts) < MaxShifts
    /\ lastOp' = [op |-> "create_shift", log |-> 0, again |-> FALSE]
    /\ Validated(ConstraintsOf(ShiftFields, Append(shifts, vals), Len(shifts) + 1),
                 Append(shifts, vals))

\* attendance.shift write({f: v}) on record id
WriteShift(id, f, v) ==
    /\ WorkersIdle
    /\ lastOp' = [op |-> "write_shift", log |-> 0, again |-> FALSE]
    /\ Validated(ConstraintsOf({f}, [shifts EXCEPT ![id][f] = v], id),
                 [shifts EXCEPT ![id][f] = v])

NextShift ==
    \/ \E c \in ShiftValues("company_id"), d \in BOOLEAN,
          g \in ShiftValues("min_punch_gap_minutes"),
          h \in ShiftValues("auto_checkout_after_hours") :
            CreateShift([company_id |-> c, is_default |-> d, active |-> TRUE,
                         min_punch_gap_minutes |-> g, auto_checkout_after_hours |-> h])
    \/ \E id \in DOMAIN shifts, f \in ShiftFields : \E v \in ShiftValues(f) :
            WriteShift(id, f, v)

SpecShift == Init /\ [][NextShift]_vars

(***************************************************************************)
(* Punch slots: is_time_in_window on one slot                              *)
(***************************************************************************)
\* the window bounds _check_times accepts, and the punch times tried
WindowFrom == {0, 8 * HOUR_SEC, 12 * HOUR_SEC, 22 * HOUR_SEC}
WindowTo == {0, 6 * HOUR_SEC, 8 * HOUR_SEC, 12 * HOUR_SEC, DAY}
WindowTimes ==
    {0, 3 * HOUR_SEC, 6 * HOUR_SEC, 7 * HOUR_SEC, 8 * HOUR_SEC, 8 * HOUR_SEC + 1,
     11 * HOUR_SEC, 12 * HOUR_SEC, 21 * HOUR_SEC, 22 * HOUR_SEC, 23 * HOUR_SEC,
     DAY - 1}

\* slot.is_time_in_window(check_time, device timezone) on a slot with the
\* window [from, to]
TimeInWindowCall(from, to, ts, dev) ==
    /\ WorkersIdle
    /\ slotCheck' = [called |-> TRUE, time_from |-> from, time_to |-> to,
                     current_hour |-> (ts + TzOffset(dev)) % DAY,
                     inside |-> IsTimeInWindow([time_from |-> from, time_to |-> to],
                                               ts, TzOffset(dev))]
    /\ lastOp' = [op |-> "is_time_in_window", log |-> 0, again |-> FALSE]
    /\ UNCHANGED <<rawLogs, attendances, result, run, wpc, wlog, wopen, scope, nPunches,
                   shifts, clock>>

NextSlot ==
    \E from \in WindowFrom, to \in WindowTo, ts \in WindowTimes, dev \in Devices :
        TimeInWindowCall(from, to, ts, dev)

SpecSlot == Init /\ [][NextSlot]_vars

(***************************************************************************)
(* One day of a slot-mode employee: device D1 delivers the punches of      *)
(* badge B2 one by one, in any order                                       *)
(***************************************************************************)
MaxDayPunches == 5  \* punches delivered in one behaviour

\* check-in, two times of the break-out slot, two of the break-in slot, two
\* of the overtime-start slot, one of the overtime-end slot
DayTimes ==
    {T0, 12 * HOUR_SEC + 10 * MIN_SEC + 50, 12 * HOUR_SEC + 45 * MIN_SEC,
     13 * HOUR_SEC + 10 * MIN_SEC + 10, 13 * HOUR_SEC + 30 * MIN_SEC,
     14 * HOUR_SEC + 30 * MIN_SEC, 14 * HOUR_SEC + 45 * MIN_SEC,
     15 * HOUR_SEC + 30 * MIN_SEC}

NextDay ==
    \E t \in DayTimes :
        /\ nPunches < MaxDayPunches
        /\ ProcessRawLogs("D1", << Punch("B2", t) >>)

InitDay == Init /\ scope = "slots"

SpecDay == InitDay /\ [][NextDay]_vars

(***************************************************************************)
(* Cron sweep and forced check-in, next to batches and reprocess calls     *)
(***************************************************************************)
MaxOpsPunches == 2  \* punches handed to process_raw_logs in one behaviour

\* fields.Datetime.now() at the sweeps
NowTimes == {7 * HOUR_SEC, DAY + HOUR_SEC, DAY + 6 * HOUR_SEC}

\* variant: the sweep applies the configured default to every session
CronDefaultHours(emp) == 16 * HOUR_SEC

\* the threshold of the sweep: the shift of the session's employee, else the
\* parameter attendance_gateway.auto_close_hours
CronAutoCloseHours(emp) == AutoCloseOf(GetEmployeeShift(emp))

\* the write of the sweep on one stale session, then _compute_status
CronClose(a, auto_sec) ==
    ComputeStatus([a EXCEPT !.check_out = a.check_in + auto_sec,
                            !.note = Append(@, [k |-> "CronAutoClosed", hm |-> 0])])

\* variant: the sweep searches every session, closed ones included
CronSweepAll(atts, now) ==
    [i \in DOMAIN atts |->
        IF now - atts[i].check_in > AutoCloseOf(GetEmployeeShift(atts[i].employee_id))
        THEN [atts[i] EXCEPT
                 !.check_out = atts[i].check_in
                                 + AutoCloseOf(GetEmployeeShift(atts[i].employee_id)),
                 !.note = Append(@, [k |-> "CronAutoClosed", hm |-> 0]),
                 !.status = "auto_closed"]
        ELSE atts[i]]

\* the loop of the sweep over the open sessions
CronSweep(atts, now) ==
    [i \in DOMAIN atts |->
        IF /\ atts[i].check_out = Null
           /\ now - atts[i].check_in > CronAutoCloseHours(atts[i].employee_id)
        THEN CronClose(atts[i], CronAutoCloseHours(atts[i].employee_id))
        ELSE atts[i]]

\* cron_auto_close_stale_attendances()
CronAutoClose(now) ==
    /\ WorkersIdle
    /\ attendances' = CronSweep(attendances, now)
    /\ clock' = now
    /\ lastOp' = [op |-> "cron", log |-> 0, again |-> FALSE]
    /\ UNCHANGED <<rawLogs, result, run, wpc, wlog, wopen, scope, nPunches, shifts,
                   slotCheck>>

\* the employee action_force_checkin works for: the one on the log, else the
\* one of the badge
ForceEmployee(log) ==
    IF log.employee_id # NoEmp THEN log.employee_id
    ELSE FindEmployeeByBadge(log.device_user_id)

\* the loop of action_force_checkin over the open sessions of the employee
ForceClose(atts, emp) ==
    [i \in DOMAIN atts |->
        IF atts[i].employee_id = emp /\ atts[i].check_out = Null
        THEN ComputeStatus([atts[i] EXCEPT
                 !.check_out = atts[i].check_in + MIN_SEC,
                 !.note = Append(@, [k |-> "ManuallyClosed", hm |-> 0])])
        ELSE atts[i]]

\* the raw log as action_force_checkin and the reset of action_reprocess
\* leave it before the pipeline runs
ForceReset(logs, id, emp) ==
    [logs EXCEPT ![id].employee_id = emp, ![id].state = "pending",
                 ![id].message = "", ![id].attendance_id = 0]

\* action_force_checkin on one raw log; a UserError leaves everything as it was
ActionForceCheckin(id) ==
    /\ WorkersIdle
    /\ IF rawLogs[id].state = "processed" \/ ForceEmployee(rawLogs[id]) = NoEmp
       THEN UNCHANGED <<rawLogs, attendances>>
       ELSE Store(ProcessPunch(ForceReset(rawLogs, id, ForceEmployee(rawLogs[id])),
                               ForceClose(attendances, ForceEmployee(rawLogs[id])),
                               id, rawLogs[id].device_id))
    /\ lastOp' = [op |-> "force", log |-> id, again |-> FALSE]
    /\ UNCHANGED <<result, run, wpc, wlog, wopen, scope, nPunches, shifts, slotCheck,
                   clock>>

NextOps ==
    \/ \E dev \in Devices :
          \E batch \in Batches(scope, dev, MaxOpsPunches - nPunches) :
             ProcessRawLogs(dev, batch)
    \/ \E id \in DOMAIN rawLogs : ActionReprocess(id)
    \/ \E now \in NowTimes : CronAutoClose(now)
    \/ \E id \in DOMAIN rawLogs : ActionForceCheckin(id)

SpecOps == Init /\ [][NextOps]_vars

(***************************************************************************)
(* _process_punch with an exception raised inside STEP 4                   *)
(***************************************************************************)
MaxFaultPunches == 3  \* punches processed one by one in one behaviour

\* where STEP 4 raises: nowhere, before its first write, or in a statement
\* after the one that wrote the session (create, check_out or note write)
Faults == {"none", "classify", "session"}

\* the except block of _process_punch: state error and the message on the raw
\* log; nothing the try block wrote before the exception is undone
Except(logs, id, emp, atts) ==
    [logs |-> [logs EXCEPT ![id].employee_id = emp, ![id].state = "error",
                           ![id].message = "exception"],
     atts |-> atts, res |-> "failed", classified |-> FALSE, mid |-> atts]

\* _process_punch when STEP 4 raises at fault; r is what the punch does
\* without the exception
Raised(logs, id, r, fault) ==
    IF fault = "none" \/ r.logs[id].employee_id = NoEmp THEN r
    ELSE IF fault = "classify"
    THEN Except(logs, id, r.logs[id].employee_id, r.mid)
    ELSE IF r.atts # r.mid
    THEN [Except(logs, id, r.logs[id].employee_id, r.atts) EXCEPT !.mid = r.mid]
    ELSE r

\* the loop body of process_raw_logs on one entry whose STEP 4 raises at fault
ProcessLogDataFault(logs, atts, dev, p, fault) ==
    IF Len(ProcessLogData(logs, atts, dev, p).logs) = Len(logs)
    THEN ProcessLogData(logs, atts, dev, p)
    ELSE Counted(Raised(Append(logs, NewRawLog(dev, p)), Len(logs) + 1,
                        ProcessPunch(Append(logs, NewRawLog(dev, p)), atts,
                                     Len(logs) + 1, dev),
                        fault))

\* process_raw_logs(device, [p]) with the exception at fault
ProcessRawLogsFault(dev, p, fault) ==
    /\ WorkersIdle
    /\ nPunches < MaxFaultPunches
    /\ Commit(Iterated(ProcessEntries(rawLogs, attendances, dev, <<p>>, 0), dev, p,
                       ProcessLogDataFault(rawLogs, attendances, dev, p, fault)), 1)
    /\ UNCHANGED <<wpc, wlog, wopen, scope, shifts, slotCheck, clock>>

NextFault ==
    \E dev \in Devices : \E p \in PunchesOf(scope, dev) : \E fault \in Faults :
        ProcessRawLogsFault(dev, p, fault)

SpecFault == Init /\ [][NextFault]_vars

(***************************************************************************)
(* Properties                                                              *)
(***************************************************************************)
Employees == {"E1", "E2"}

\* the employee and the auto-close threshold of an observed punch
EmpOf(e) == FindEmployeeByBadge(e.device_user_id)
ThresholdOf(e) == AutoCloseOf(GetEmployeeShift(EmpOf(e)))

\* the raw logs of the punch's device and badge persisted before it was handled
SameKeyBefore(e) ==
    {i \in DOMAIN e.pre_logs : /\ e.pre_logs[i].device_id = e.device_id
                               /\ e.pre_logs[i].device_user_id = e.device_user_id}

ExactBefore(e) == \E i \in SameKeyBefore(e) : e.pre_logs[i].timestamp = e.timestamp

NothingChanged(e) == e.post_logs = e.pre_logs /\ e.post_atts = e.pre_atts

\* C1: after any sequence of process_raw_logs batches (and reprocess calls),
\* every employee has at most one session with null check_out.
C1_AtMostOneOpen ==
    \A emp \in Employees : Cardinality(OpenIds(attendances, emp)) <= 1

C1_Witness ==
    /\ lastOp.op = "batch"
    /\ \E emp \in Employees :
        /\ Cardinality(OpenIds(attendances, emp)) = 1
        /\ \E i \in DOMAIN attendances :
              attendances[i].employee_id = emp /\ attendances[i].check_out # Null

\* C3: any two punches of a batch that carry timestamps t1 < t2 go through
\* the pipeline in that order, whatever the order of the input array.
C3_TimestampOrder ==
    \A i, j \in DOMAIN run :
        (/\ run[i].timestamp # Null
         /\ run[j].timestamp # Null
         /\ run[i].timestamp < run[j].timestamp) => i < j

\* C5: a punch whose (device, badge, timestamp) is that of a persisted raw log
\* is counted duplicate, and creates or changes no raw log and no session.
C5_ExactDuplicateNoEffect ==
    \A k \in DOMAIN run :
        ExactBefore(run[k]) => run[k].outcome = "duplicates" /\ NothingChanged(run[k])

C5_Witness ==
    \E k \in DOMAIN run :
        /\ \E i \in SameKeyBefore(run[k]) :
              /\ run[k].pre_logs[i].timestamp = run[k].timestamp
              /\ run[k].pre_logs[i].state = "ignored"
        /\ run[k].outcome = "duplicates"

\* C6 as stated: whenever a raw log of the same device and badge 30 s before
\* the punch is persisted, the punch is counted duplicate and no session changes.
C6_Original ==
    \A k \in DOMAIN run :
        (\E i \in SameKeyBefore(run[k]) :
            run[k].pre_logs[i].timestamp + 30 = run[k].timestamp)
        => run[k].outcome = "duplicates" /\ run[k].post_atts = run[k].pre_atts

\* C6 amended: whenever a raw log of the same device and badge 30 s before the
\* punch is persisted in state processed or pending, the punch is counted
\* duplicate and changes no raw log and no session.
C6_SecondIsDuplicate ==
    \A k \in DOMAIN run :
        (\E i \in SameKeyBefore(run[k]) :
            /\ run[k].pre_logs[i].timestamp + 30 = run[k].timestamp
            /\ run[k].pre_logs[i].state \in {"processed", "pending"})
        => run[k].outcome = "duplicates" /\ NothingChanged(run[k])

\* the first punch was persisted by an earlier entry of the same batch
C6_Witness ==
    \E j, k \in DOMAIN run :
        /\ j < k
        /\ run[j].outcome = "processed"
        /\ run[j].device_user_id = run[k].device_user_id
        /\ run[j].timestamp + 30 = run[k].timestamp
        /\ run[k].outcome = "duplicates"

\* C7: a punch with badge and timestamp and no exact match is counted
\* duplicate exactly when a raw log of its device and badge within
\* [timestamp - W, timestamp + W] is in state processed or pending.
C7_NearDuplicateRule ==
    \A k \in DOMAIN run :
        (run[k].device_user_id # "" /\ run[k].timestamp # Null /\ ~ExactBefore(run[k]))
        => (run[k].outcome = "duplicates"
            <=> \E i \in SameKeyBefore(run[k]) :
                    /\ run[k].pre_logs[i].timestamp >= run[k].timestamp - 60
                    /\ run[k].pre_logs[i].timestamp <= run[k].timestamp + 60
                    /\ run[k].pre_logs[i].state \in {"processed", "pending"})

\* an ignored log inside the window, and the punch is let through
C7_Witness ==
    \E k \in DOMAIN run :
        /\ run[k].outcome = "processed"
        /\ \E i \in SameKeyBefore(run[k]) :
              /\ run[k].pre_logs[i].timestamp = run[k].timestamp - 30
              /\ run[k].pre_logs[i].state = "ignored"

\* the sessions a punch finds open and older than the auto-close threshold
StaleBefore(e) ==
    {i \in DOMAIN e.pre_atts : /\ e.pre_atts[i].employee_id = EmpOf(e)
                               /\ e.pre_atts[i].check_out = Null
                               /\ e.timestamp - e.pre_atts[i].check_in > ThresholdOf(e)}

\* C8 as stated: the stale session is closed at check_in + threshold, and that
\* check_out does not exceed the punch time minus one minute.
C8_Original ==
    \A k \in DOMAIN run : run[k].classified =>
        \A i \in StaleBefore(run[k]) :
            /\ run[k].mid_atts[i].check_out = run[k].pre_atts[i].check_in + ThresholdOf(run[k])
            /\ run[k].mid_atts[i].check_out <= run[k].timestamp - 60

\* C8 amended: the stale session is closed at check_in + threshold, which is
\* earlier than the punch time (by as little as one second).
C8_ClosedAtThreshold ==
    \A k \in DOMAIN run : run[k].classified =>
        \A i \in StaleBefore(run[k]) :
            /\ run[k].mid_atts[i].check_out = run[k].pre_atts[i].check_in + ThresholdOf(run[k])
            /\ run[k].mid_atts[i].check_out < run[k].timestamp

C8_Witness ==
    \E k \in DOMAIN run : run[k].classified /\
        \E i \in StaleBefore(run[k]) :
            /\ run[k].mid_atts[i].check_out # Null
            /\ run[k].mid_atts[i].check_out > run[k].timestamp - 60

\* C9: toggle mode, threshold 20 h: a punch 21 h after the check_in of the
\* open session leaves that session closed at check_in + 20 h and a new open
\* session with check_in at the punch time.
C9_AutoCloseThenCheckIn ==
    \A k \in DOMAIN run :
        (run[k].classified /\ EmpOf(run[k]) = "E1") =>
        \A i \in DOMAIN run[k].pre_atts :
            (/\ run[k].pre_atts[i].employee_id = "E1"
             /\ run[k].pre_atts[i].check_out = Null
             /\ run[k].timestamp = run[k].pre_atts[i].check_in + 21 * HOUR_SEC)
            => /\ run[k].post_atts[i].check_out = run[k].pre_atts[i].check_in + 20 * HOUR_SEC
               /\ Len(run[k].post_atts) = Len(run[k].pre_atts) + 1
               /\ LET new == run[k].post_atts[Len(run[k].post_atts)]
                  IN  /\ new.employee_id = "E1"
                      /\ new.check_in = run[k].timestamp
                      /\ new.check_out = Null
               /\ run[k].outcome = "processed"

C9_Witness ==
    \E k \in DOMAIN run : \E i \in DOMAIN run[k].pre_atts :
        /\ run[k].pre_atts[i].check_out = Null
        /\ run[k].pre_atts[i].check_in = T0
        /\ run[k].device_user_id = "B1"
        /\ run[k].timestamp = T0 + 21 * HOUR_SEC
        /\ run[k].post_atts[i].status = "auto_closed"
        /\ Len(run[k].post_atts) = 2

\* C10: when a punch is classified, its employee has no open session older
\* (relative to the punch) than the auto-close threshold.
C10_NoStaleAtClassification ==
    \A k \in DOMAIN run : run[k].classified =>
        \A i \in DOMAIN run[k].mid_atts :
            (/\ run[k].mid_atts[i].employee_id = EmpOf(run[k])
             /\ run[k].mid_atts[i].check_out = Null)
            => run[k].timestamp - run[k].mid_atts[i].check_in <= ThresholdOf(run[k])

C10_Witness ==
    \E k \in DOMAIN run :
        /\ run[k].classified
        /\ StaleBefore(run[k]) # {}
        /\ EmpOf(run[k]) = "E2"

\* C4: reprocessing a raw log right after the operation that handled it last
\* leaves every session and every raw log as the first run left them.
C4_ReprocessIdempotent ==
    [][(lastOp'.op = "reprocess" /\ lastOp'.again)
          => (attendances' = attendances /\ rawLogs' = rawLogs)]_vars

C4_Witness ==
    /\ lastOp.op = "reprocess"
    /\ lastOp.again
    /\ rawLogs[lastOp.log].state = "ignored"
    /\ OpenIds(attendances, rawLogs[lastOp.log].employee_id) # {}

\* the raw log an observed punch was given, and the mode of its employee's shift
LogOf(e) == e.post_logs[Len(e.pre_logs) + 1]
SlotModeOf(e) == ShiftRow(GetEmployeeShift(EmpOf(e))).use_punch_slots

\* the sessions of the punch's employee that are open when it is classified
OpenAtClassification(e) ==
    {i \in DOMAIN e.mid_atts : /\ e.mid_atts[i].employee_id = EmpOf(e)
                               /\ e.mid_atts[i].check_out = Null}

\* toggle mode, or slot mode at a time of the check-out slot
CheckOutDirected(e) ==
    \/ ~SlotModeOf(e)
    \/ GetSlotPunchType(GetEmployeeShift(EmpOf(e)), e.timestamp, TzOffset(e.device_id)) = "1"

\* C11: a check-out-directed punch less than min_punch_gap_minutes (1 min)
\* after the check_in of the open session ends ignored, and no session changes.
C11_MinGapIgnored ==
    \A k \in DOMAIN run : run[k].classified =>
        \A i \in OpenAtClassification(run[k]) :
            (CheckOutDirected(run[k]) /\ run[k].timestamp - run[k].mid_atts[i].check_in < 60)
            => /\ run[k].outcome = "ignored"
               /\ LogOf(run[k]).state = "ignored"
               /\ run[k].post_atts = run[k].mid_atts
               /\ run[k].post_atts[i].check_out = Null

C11_Witness ==
    \E k \in DOMAIN run : run[k].classified /\ ~SlotModeOf(run[k]) /\
        \E i \in OpenAtClassification(run[k]) :
            /\ run[k].timestamp = run[k].mid_atts[i].check_in + 30
            /\ run[k].outcome = "ignored"

\* C12: toggle mode: a classified punch opens a session at its timestamp when
\* the employee has none open, and closes the open session at its timestamp
\* when one is open and the minimum gap (1 min) has passed.
C12_ToggleByState ==
    \A k \in DOMAIN run : (run[k].classified /\ ~SlotModeOf(run[k])) =>
        LET e == run[k]
            n == Len(e.mid_atts)
        IN  /\ OpenAtClassification(e) = {} =>
                /\ e.outcome = "processed"
                /\ Len(e.post_atts) = n + 1
                /\ \A i \in 1..n : e.post_atts[i] = e.mid_atts[i]
                /\ e.post_atts[n + 1].employee_id = EmpOf(e)
                /\ e.post_atts[n + 1].check_in = e.timestamp
                /\ e.post_atts[n + 1].check_out = Null
                /\ LogOf(e).punch_type = "0"
                /\ LogOf(e).attendance_id = n + 1
            /\ \A i \in OpenAtClassification(e) :
                  e.timestamp - e.mid_atts[i].check_in >= 60 =>
                    /\ e.outcome = "processed"
                    /\ Len(e.post_atts) = n
                    /\ \A j \in 1..n : j # i => e.post_atts[j] = e.mid_atts[j]
                    /\ e.post_atts[i].check_in = e.mid_atts[i].check_in
                    /\ e.post_atts[i].check_out = e.timestamp
                    /\ LogOf(e).punch_type = "1"
                    /\ LogOf(e).attendance_id = i

C12_Witness ==
    \E k \in DOMAIN run : run[k].classified /\ ~SlotModeOf(run[k]) /\
        \E i \in OpenAtClassification(run[k]) :
            /\ run[k].post_atts[i].check_out = run[k].timestamp
            /\ LogOf(run[k]).punch_type = "1"

\* values a device reports as punch type (str(att.punch), str(item['type']))
DeviceTypes == {"0", "1", "255"}

\* C13: the same punch reported with any other device punch type, handled in
\* the same state, has the same outcome and leaves the same sessions.
C13_DeviceTypeIgnored ==
    \A k \in DOMAIN run : \A t \in DeviceTypes :
        LET e == run[k]
            other == ProcessLogData(e.pre_logs, e.pre_atts, e.device_id,
                                    [device_user_id |-> e.device_user_id,
                                     timestamp |-> e.timestamp, punch_type |-> t])
        IN  other.outcome = e.outcome /\ other.atts = e.post_atts

\* the time of day an observed punch has on its device's clock
LocalTimeOf(e) == (e.timestamp + TzOffset(e.device_id)) % DAY

\* the active slots of the slot-mode shift whose window holds that time
SlotsAt(e) ==
    {i \in DOMAIN SlotRows : /\ SlotRows[i].active
                             /\ SlotRows[i].time_from <= LocalTimeOf(e)
                             /\ LocalTimeOf(e) <= SlotRows[i].time_to}

C15_LowestSequenceWins ==
    \A k \in DOMAIN run : (run[k].classified /\ SlotModeOf(run[k])) =>
        \A i \in SlotsAt(run[k]) :
            (\A j \in SlotsAt(run[k]) : SlotRows[i].sequence <= SlotRows[j].sequence)
            => LogOf(run[k]).punch_type = SlotRows[i].punch_type

\* one punch where an inactive slot of lower sequence holds the time, and one
\* inside two active windows
C15_Witness ==
    \E j, k \in DOMAIN run :
        /\ run[j].classified /\ SlotModeOf(run[j])
        /\ \E i \in DOMAIN SlotRows :
              /\ ~SlotRows[i].active
              /\ SlotRows[i].time_from <= LocalTimeOf(run[j])
              /\ LocalTimeOf(run[j]) <= SlotRows[i].time_to
              /\ \A h \in SlotsAt(run[j]) : SlotRows[i].sequence < SlotRows[h].sequence
        /\ LogOf(run[j]).punch_type = "0"
        /\ run[k].classified /\ SlotModeOf(run[k])
        /\ Cardinality(SlotsAt(run[k])) = 2
        /\ LogOf(run[k]).punch_type = "2"

\* the status the priority order gives a session of the 9-17 policy (late after
\* 15 min, early leave 15 min before the end, half day under 4 h, overtime over 8 h)
PriorityStatus(a) ==
    LET tz == TzOffset(a.device_id)
        shift_start == (a.check_in \div DAY) * DAY + 9 * HOUR_SEC - tz
        shift_end == (a.check_in \div DAY) * DAY + 17 * HOUR_SEC - tz
        worked == a.check_out - a.check_in
    IN  IF HasMarker(a.note, AutoClosedKinds) THEN "auto_closed"
        ELSE IF worked < 4 * HOUR_SEC THEN "half_day"
        ELSE IF worked > 8 * HOUR_SEC THEN "overtime"
        ELSE IF a.check_in > shift_start + 15 * MIN_SEC THEN "late"
        ELSE IF a.check_out < shift_end - 15 * MIN_SEC THEN "early_leave"
        ELSE "on_time"

\* C16: a session with check_in and check_out has the first status that
\* matches in the order auto_closed, half_day, overtime, late, early_leave,
\* on_time.
C16_StatusPriority ==
    \A i \in DOMAIN attendances :
        attendances[i].check_out # Null
        => attendances[i].status = PriorityStatus(attendances[i])

\* C17: check_in 09:20, check_out 17:30, local = UTC: status overtime and
\* overtime_minutes 10.
C17_OvertimeTenMinutes ==
    \A i \in DOMAIN attendances :
        (/\ attendances[i].check_in = 9 * HOUR_SEC + 20 * MIN_SEC
         /\ attendances[i].check_out = 17 * HOUR_SEC + 30 * MIN_SEC
         /\ TzOffset(attendances[i].device_id) = 0
         /\ ~HasMarker(attendances[i].note, AutoClosedKinds))
        => /\ attendances[i].status = "overtime"
           /\ attendances[i].overtime_minutes = 10

\* the punch was stored as a raw log: it has a badge, a timestamp and a known
\* type, and no raw log of its device and badge was there before
StoredFirst(e) ==
    /\ e.device_user_id # ""
    /\ e.timestamp # Null
    /\ e.punch_type \in RawLogPunchTypes
    /\ SameKeyBefore(e) = {}

UnknownBadge(e) == StoredFirst(e) /\ EmpOf(e) = NoEmp

\* C18: a punch whose badge resolves to no employee ends in state error with
\* the message "No employee found", no session is created or modified, and the
\* batch goes on: every later entry is handled on the tables the punch left.
C18_UnknownBadgeError ==
    /\ \A k \in DOMAIN run :
          UnknownBadge(run[k])
          => /\ Len(run[k].post_logs) = Len(run[k].pre_logs) + 1
             /\ LogOf(run[k]).state = "error"
             /\ LogOf(run[k]).message = "No employee found"
             /\ LogOf(run[k]).attendance_id = 0
             /\ run[k].post_atts = run[k].pre_atts
             /\ run[k].outcome = "failed"
             /\ Len(run) = result.fetched
             /\ k < Len(run) => /\ run[k + 1].pre_logs = run[k].post_logs
                                /\ run[k + 1].pre_atts = run[k].post_atts
    /\ \A i \in DOMAIN rawLogs :
          FindEmployeeByBadge(rawLogs[i].device_user_id) = NoEmp
          => /\ rawLogs[i].state = "error"
             /\ rawLogs[i].message = "No employee found"
             /\ \A a \in DOMAIN attendances : rawLogs[i].attendance_id # a

\* a batch where a punch of an unknown badge is followed by a punch that
\* opens a session
C18_Witness ==
    \E k, j \in DOMAIN run :
        /\ k < j
        /\ UnknownBadge(run[k])
        /\ LogOf(run[k]).state = "error"
        /\ run[j].outcome = "processed"
        /\ Len(run[j].post_atts) = Len(run[j].pre_atts) + 1

\* the entries of the last batch that ended in outcome o
EntriesWith(o) == {k \in DOMAIN run : run[k].outcome = o}

Outcomes == {"processed", "ignored", "duplicates", "failed"}

\* C19: the result of process_raw_logs satisfies fetched = processed +
\* ignored + duplicates + failed; every entry of the batch, failing ones
\* included, is counted in exactly one of the four outcomes.
C19_CountersAddUp ==
    /\ result.fetched = result.processed + result.ignored + result.duplicates
                         + result.failed
    /\ result.fetched = Len(run)
    /\ \A k \in DOMAIN run : run[k].outcome \in Outcomes
    /\ \A o \in Outcomes : result[o] = Cardinality(EntriesWith(o))

\* a batch of three entries, one failing, one skipped as duplicate and one
\* processed
C19_Witness ==
    /\ lastOp.op = "batch"
    /\ Len(run) = result.fetched
    /\ result.failed = 1
    /\ result.duplicates = 1
    /\ result.processed = 1

\* session b starts within the interval of session a
StartsWithin(a, b) ==
    /\ a.employee_id = b.employee_id
    /\ a.check_in <= b.check_in
    /\ (a.check_out = Null \/ b.check_in < a.check_out)

\* C20: for every employee, the intervals [check_in, check_out] of the
\* sessions never overlap, also when a later batch delivers punches older than
\* the sessions there are.
C20_NoOverlap ==
    \A i, j \in DOMAIN attendances :
        i # j => ~StartsWithin(attendances[i], attendances[j])

\* the punch was stored and its raw log ended in state ignored
IgnoredPunch(e) ==
    /\ Len(e.post_logs) = Len(e.pre_logs) + 1
    /\ LogOf(e).state = "ignored"

\* C21 as stated: a punch that ends in state ignored leaves every session as
\* it was before the punch was processed.
C21_Original ==
    \A k \in DOMAIN run :
        IgnoredPunch(run[k]) => run[k].post_atts = run[k].pre_atts

\* C21: a punch that ends in state ignored leaves every session as the
\* stale-session auto-close of its own processing left it: the classification
\* creates no session and changes no field of any session, and the only
\* change since the punch arrived is the auto-close of a stale open session
\* of the employee.
C21_IgnoredKeepsSessions ==
    \A k \in DOMAIN run :
        IgnoredPunch(run[k])
        => /\ run[k].classified
           /\ run[k].post_atts = run[k].mid_atts
           /\ run[k].mid_atts = AutoCloseStaleAttendance(run[k].pre_atts, EmpOf(run[k]),
                                    run[k].timestamp, ThresholdOf(run[k]))
           /\ run[k].outcome = "ignored"

\* an ignored punch whose processing auto-closed a stale session first
C21_Witness ==
    \E k \in DOMAIN run :
        /\ IgnoredPunch(run[k])
        /\ run[k].mid_atts # run[k].pre_atts
        /\ run[k].post_atts = run[k].mid_atts

\* the punch reached the slot classifier, was classified as check-in and found
\* an open session of its employee
CheckInOnOpenSession(e) ==
    /\ e.classified
    /\ SlotModeOf(e)
    /\ GetSlotPunchType(GetEmployeeShift(EmpOf(e)), e.timestamp, TzOffset(e.device_id)) = "0"
    /\ OpenAtClassification(e) # {}

\* C22: a punch classified as check-in while the employee has an open session
\* opens no second session, leaves the open one as it is, and the punch ends
\* in state error.
C22_ConflictIsError ==
    \A k \in DOMAIN run :
        CheckInOnOpenSession(run[k])
        => /\ run[k].post_atts = run[k].mid_atts
           /\ LogOf(run[k]).state = "error"

\* the raw logs as the reset of action_reprocess would leave them
ResetLog(logs, id) ==
    [logs EXCEPT ![id].state = "pending", ![id].message = "", ![id].attendance_id = 0]

\* the reprocess step was asked for raw log id, which is in state processed
ReprocessOfProcessed(id) ==
    /\ lastOp'.op = "reprocess"
    /\ lastOp'.log = id
    /\ rawLogs[id].state = "processed"

\* C23: reprocessing a punch in state processed resets it to pending, clears
\* its session link and message, and re-runs the pipeline on it: the step
\* leaves the tables the pipeline produces from the reset punch.
C23_ProcessedIsReset ==
    [][\A id \in DOMAIN rawLogs :
          ReprocessOfProcessed(id)
          => /\ rawLogs' = ProcessPunch(ResetLog(rawLogs, id), attendances, id,
                                        rawLogs[id].device_id).logs
             /\ attendances' = ProcessPunch(ResetLog(rawLogs, id), attendances, id,
                                            rawLogs[id].device_id).atts]_vars

\* the policy a session is classified against, and whether it is a night shift
ShiftOfSession(a) ==
    IF a.shift_id # NoShift THEN a.shift_id ELSE GetEmployeeShift(a.employee_id)

NightShift(shift) ==
    shift # NoShift /\ ShiftRow(shift).work_hour_to < ShiftRow(shift).work_hour_from

\* the boundaries _compute_status asks for: check_in.date() and the timezone
\* of the device
BoundariesOf(a) ==
    GetShiftBoundaries(ShiftOfSession(a), a.check_in \div DAY, TzOffset(a.device_id))

\* the calendar date, in the device's timezone, of a UTC time
LocalDate(t, a) == (t + TzOffset(a.device_id)) \div DAY

\* C24: for a policy with work_hour_to < work_hour_from, the shift end used
\* for a session checked in on date D is on date D+1 and later than the shift
\* start; a closed session that ends more than early_leave_before_minutes
\* before that end has the minutes up to it as early_leave_minutes.
C24_NightShiftEnd ==
    \A i \in DOMAIN attendances :
        NightShift(ShiftOfSession(attendances[i]))
        => /\ LocalDate(BoundariesOf(attendances[i]).shift_start, attendances[i])
                = attendances[i].check_in \div DAY
           /\ LocalDate(BoundariesOf(attendances[i]).shift_end, attendances[i])
                = attendances[i].check_in \div DAY + 1
           /\ BoundariesOf(attendances[i]).shift_end
                > BoundariesOf(attendances[i]).shift_start
           /\ (/\ attendances[i].check_out # Null
               /\ ~HasMarker(attendances[i].note, AutoClosedKinds)
               /\ attendances[i].check_out
                    < BoundariesOf(attendances[i]).early_leave_threshold)
              => attendances[i].early_leave_minutes
                   = (BoundariesOf(attendances[i]).shift_end
                      - attendances[i].check_out) \div MIN_SEC

\* a night-shift session from 22:00 to 05:00 of the next day: one hour early
C24_Witness ==
    \E i \in DOMAIN attendances :
        /\ NightShift(ShiftOfSession(attendances[i]))
        /\ attendances[i].check_in = 22 * HOUR_SEC
        /\ attendances[i].check_out = DAY + 5 * HOUR_SEC
        /\ attendances[i].device_id = "D1"
        /\ attendances[i].status = "early_leave"
        /\ attendances[i].early_leave_minutes = 60

\* the default policies get_employee_shift can return for company c
DefaultsFor(c) ==
    {i \in DOMAIN shifts : /\ shifts[i].active
                           /\ shifts[i].is_default
                           /\ shifts[i].company_id \in {c, NoCompany}}

\* C25: every stored policy has auto_checkout_after_hours >= 1 and
\* min_punch_gap_minutes >= 0, and at most one policy applicable to a company
\* is marked default.
C25_PolicyInvariants ==
    /\ \A i \in DOMAIN shifts : /\ shifts[i].auto_checkout_after_hours >= 1
                                 /\ shifts[i].min_punch_gap_minutes >= 0
    /\ \A c \in Companies : Cardinality(DefaultsFor(c)) <= 1

\* C26: a slot window contains local time h exactly when time_from <= h <=
\* time_to if time_to >= time_from, and when h >= time_from or h <= time_to if
\* time_to < time_from.
C26_WindowRule ==
    slotCheck.called
    => (slotCheck.inside
        <=> IF slotCheck.time_to >= slotCheck.time_from
            THEN /\ slotCheck.time_from <= slotCheck.current_hour
                 /\ slotCheck.current_hour <= slotCheck.time_to
            ELSE \/ slotCheck.current_hour >= slotCheck.time_from
                 \/ slotCheck.current_hour <= slotCheck.time_to)

\* the punch type the slots give the punch ("none" outside every slot)
SlotTypeOf(e) ==
    GetSlotPunchType(GetEmployeeShift(EmpOf(e)), e.timestamp, TzOffset(e.device_id))

\* the punch reached the slot classifier with an open session of its employee
\* and was given slot type ty
SlotPunchOnOpen(e, ty) ==
    /\ e.classified
    /\ SlotModeOf(e)
    /\ SlotTypeOf(e) = ty
    /\ OpenAtClassification(e) # {}

\* markers of kind k1 that no later marker of kind k2 has closed
OpenMarkers(note, k1, k2) == CountMarker(note, k1) - CountMarker(note, k2)

\* the note of the session the classifier found open
OpenNote(e) == e.mid_atts[SearchOpen(e.mid_atts, EmpOf(e))].note

\* C27: in slot mode, break-out markers minus break-in markers of a session is
\* 0 or 1; a break-out punch while a break is open and a break-in punch while
\* no break is open are ignored and leave the sessions unchanged.
C27_BreakMarkersAlternate ==
    /\ \A i \in DOMAIN attendances :
          OpenMarkers(attendances[i].note, "BreakOut", "BreakIn") \in {0, 1}
    /\ \A k \in DOMAIN run :
          /\ (/\ SlotPunchOnOpen(run[k], "2")
              /\ OpenMarkers(OpenNote(run[k]), "BreakOut", "BreakIn") = 1)
             => /\ LogOf(run[k]).state = "ignored"
                /\ run[k].post_atts = run[k].mid_atts
          /\ (/\ SlotPunchOnOpen(run[k], "3")
              /\ OpenMarkers(OpenNote(run[k]), "BreakOut", "BreakIn") = 0)
             => /\ LogOf(run[k]).state = "ignored"
                /\ run[k].post_atts = run[k].mid_atts

\* a session with a completed break and a second break open, on which a
\* punch of the break-in slot has just closed the second break
C27_Witness ==
    \E k \in DOMAIN run :
        /\ SlotPunchOnOpen(run[k], "3")
        /\ CountMarker(OpenNote(run[k]), "BreakOut") = 2
        /\ CountMarker(OpenNote(run[k]), "BreakIn") = 1
        /\ LogOf(run[k]).state = "processed"
        /\ \E i \in DOMAIN attendances :
              /\ CountMarker(attendances[i].note, "BreakOut") = 2
              /\ CountMarker(attendances[i].note, "BreakIn") = 2

\* C28: in slot mode, overtime-start markers minus overtime-end markers of a
\* session is 0 or 1; an overtime-start punch while overtime is open and an
\* overtime-end punch while no overtime is open are ignored and leave the
\* sessions unchanged.
C28_OvertimeMarkersAlternate ==
    /\ \A i \in DOMAIN attendances :
          OpenMarkers(attendances[i].note, "OTStart", "OTEnd") \in {0, 1}
    /\ \A k \in DOMAIN run :
          /\ (/\ SlotPunchOnOpen(run[k], "4")
              /\ OpenMarkers(OpenNote(run[k]), "OTStart", "OTEnd") = 1)
             => /\ LogOf(run[k]).state = "ignored"
                /\ run[k].post_atts = run[k].mid_atts
          /\ (/\ SlotPunchOnOpen(run[k], "5")
              /\ OpenMarkers(OpenNote(run[k]), "OTStart", "OTEnd") = 0)
             => /\ LogOf(run[k]).state = "ignored"
                /\ run[k].post_atts = run[k].mid_atts

\* an overtime-start punch arrives after a completed overtime and opens a
\* second one
C28_Witness ==
    \E k \in DOMAIN run :
        /\ SlotPunchOnOpen(run[k], "4")
        /\ CountMarker(OpenNote(run[k]), "OTStart") = 1
        /\ CountMarker(OpenNote(run[k]), "OTEnd") = 1
        /\ LogOf(run[k]).state = "processed"
        /\ \E i \in DOMAIN attendances :
              OpenMarkers(attendances[i].note, "OTStart", "OTEnd") = 1

\* the slot types of break and overtime punches, and the marker each writes
MarkerTypes == {"2", "3", "4", "5"}

MarkerKind(ty) ==
    CASE ty = "2" -> "BreakOut"
      [] ty = "3" -> "BreakIn"
      [] ty = "4" -> "OTStart"
      [] OTHER -> "OTEnd"

\* session b is session a with at most one marker of kind k appended to the
\* note and, if allowed, another break_minutes
OnlyMarked(a, b, k, breakToo) ==
    /\ [b EXCEPT !.note = a.note, !.break_minutes = a.break_minutes] = a
    /\ \/ b.note = a.note
       \/ /\ Len(b.note) = Len(a.note) + 1
          /\ SubSeq(b.note, 1, Len(a.note)) = a.note
          /\ b.note[Len(b.note)].k = k
    /\ breakToo \/ b.break_minutes = a.break_minutes

\* C29: a punch classified as break-out, break-in, overtime-start or
\* overtime-end creates no session and leaves check_in, check_out and every
\* other field of every session as it was; it only appends its marker to the
\* note of the active session, and a break-in may add to break_minutes.
C29_MarkersOnly ==
    \A k \in DOMAIN run :
        (run[k].classified /\ SlotModeOf(run[k]) /\ SlotTypeOf(run[k]) \in MarkerTypes)
        => /\ Len(run[k].post_atts) = Len(run[k].mid_atts)
           /\ \A i \in DOMAIN run[k].mid_atts :
                 /\ OnlyMarked(run[k].mid_atts[i], run[k].post_atts[i],
                               MarkerKind(SlotTypeOf(run[k])), SlotTypeOf(run[k]) = "3")
                 /\ run[k].post_atts[i] # run[k].mid_atts[i]
                    => i = SearchOpen(run[k].mid_atts, EmpOf(run[k]))

\* an accepted break-in punch: the open session keeps check_in and a null
\* check_out, gains a marker and break minutes
C29_Witness ==
    \E k \in DOMAIN run :
        /\ SlotPunchOnOpen(run[k], "3")
        /\ LogOf(run[k]).state = "processed"
        /\ \E i \in DOMAIN run[k].mid_atts :
              /\ run[k].post_atts[i].check_out = Null
              /\ run[k].post_atts[i].check_in = run[k].mid_atts[i].check_in
              /\ Len(run[k].post_atts[i].note) = Len(run[k].mid_atts[i].note) + 1
              /\ run[k].post_atts[i].break_minutes > run[k].mid_atts[i].break_minutes

\* the raw logs of accepted break-out punches of session a, before punch e
BreakOutLogs(e, a) ==
    {i \in DOMAIN e.pre_logs : /\ e.pre_logs[i].attendance_id = a
                               /\ e.pre_logs[i].punch_type = "2"
                               /\ e.pre_logs[i].state = "processed"}

\* the time of the most recent of them
LastBreakOutTime(e, a) ==
    e.pre_logs[CHOOSE i \in BreakOutLogs(e, a) : \A j \in BreakOutLogs(e, a) : j <= i].timestamp

\* the session the classifier found open
OpenSessionOf(e) == SearchOpen(e.mid_atts, EmpOf(e))

\* C30: an accepted break-in adds to break_minutes the whole minutes elapsed
\* between the most recent break-out punch and the break-in punch.
C30_BreakMinutesElapsed ==
    \A k \in DOMAIN run :
        (SlotPunchOnOpen(run[k], "3") /\ LogOf(run[k]).state = "processed")
        => run[k].post_atts[OpenSessionOf(run[k])].break_minutes
             - run[k].mid_atts[OpenSessionOf(run[k])].break_minutes
           = (run[k].timestamp - LastBreakOutTime(run[k], OpenSessionOf(run[k])))
               \div MIN_SEC

\* C31: in every reachable state the four minute fields of every session
\* (late_minutes, early_leave_minutes, overtime_minutes, break_minutes) are
\* greater than or equal to 0.
C31_MinutesNonNegative ==
    \A i \in DOMAIN attendances :
        /\ attendances[i].late_minutes >= 0
        /\ attendances[i].early_leave_minutes >= 0
        /\ attendances[i].overtime_minutes >= 0
        /\ attendances[i].break_minutes >= 0

\* a session closed by a check-out punch before the overtime threshold and
\* before the end of the shift: the signed overtime difference is negative,
\* the early-leave minutes are counted
C31_Witness ==
    \E i \in DOMAIN attendances :
        /\ attendances[i].check_out # Null
        /\ ~HasMarker(attendances[i].note, AutoClosedKinds)
        /\ attendances[i].check_out - attendances[i].check_in
              < ShiftRow(ShiftOfSession(attendances[i])).overtime_after_sec
        /\ attendances[i].early_leave_minutes > 0
        /\ attendances[i].overtime_minutes = 0

\* C32: no step of punch processing, reprocessing, forced check-in or cron
\* sweep deletes a session or changes a session's check_in, and a check_out
\* that is set keeps its value in every later step.
C32_SessionsKept ==
    [][/\ Len(attendances') >= Len(attendances)
       /\ \A i \in DOMAIN attendances :
             /\ attendances'[i].employee_id = attendances[i].employee_id
             /\ attendances'[i].check_in = attendances[i].check_in
             /\ attendances[i].check_out # Null
                  => attendances'[i].check_out = attendances[i].check_out]_vars

\* a session the sweep closed, a later session of the same employee, and a
\* further sweep as the last operation, late enough to find the first stale
C32_Witness ==
    /\ lastOp.op = "cron"
    /\ \E i, j \in DOMAIN attendances :
          /\ i < j
          /\ attendances[i].employee_id = attendances[j].employee_id
          /\ HasMarker(attendances[i].note, {"CronAutoClosed"})
          /\ attendances[i].check_out # Null
          /\ clock - attendances[i].check_in
                > CronAutoCloseHours(attendances[i].employee_id)

\* C33: a punch whose raw log ends in state error has made no session
\* mutation: the session table after the punch is the table before it, also
\* when STEP 4 raises after the stale session was auto-closed or after the
\* session was created or closed.
C33_ErrorMeansNoMutation ==
    \A k \in DOMAIN run :
        /\ Len(run[k].post_logs) = Len(run[k].pre_logs) + 1
        /\ LogOf(run[k]).state = "error"
        => run[k].post_atts = run[k].pre_atts

C35_NoneLeftPending ==
    /\ \A i \in DOMAIN rawLogs : rawLogs[i].state \in {"processed", "ignored", "error"}
    /\ \A k \in DOMAIN run :
          Len(run[k].post_logs) = Len(run[k].pre_logs) + 1
          => LogOf(run[k]).state \in {"processed", "ignored", "error"}

\* a batch of three stored punches that ended in the three states
C35_Witness ==
    /\ lastOp.op = "batch"
    /\ Len(run) = 3
    /\ \A k \in DOMAIN run : Len(run[k].post_logs) = Len(run[k].pre_logs) + 1
    /\ {rawLogs[i].state : i \in DOMAIN rawLogs} = {"processed", "ignored", "error"}

\* C36: every raw log in state processed is linked to a session whose
\* employee is the employee of the punch's badge; a processed check-in punch
\* is linked to the session whose check_in is its timestamp, a processed
\* check-out punch to the session whose check_out is its timestamp.
C36_ProcessedLinked ==
    \A i \in DOMAIN rawLogs :
        rawLogs[i].state = "processed"
        => /\ rawLogs[i].attendance_id \in DOMAIN attendances
           /\ rawLogs[i].employee_id = FindEmployeeByBadge(rawLogs[i].device_user_id)
           /\ attendances[rawLogs[i].attendance_id].employee_id = rawLogs[i].employee_id
           /\ rawLogs[i].punch_type = "0"
                => attendances[rawLogs[i].attendance_id].check_in = rawLogs[i].timestamp
           /\ rawLogs[i].punch_type = "1"
                => attendances[rawLogs[i].attendance_id].check_out = rawLogs[i].timestamp

\* two employees with a processed punch each, one of them with a check-in
\* punch and a check-out punch linked to the same session
C36_Witness ==
    \E i, j, k \in DOMAIN rawLogs :
        /\ rawLogs[i].state = "processed" /\ rawLogs[i].punch_type = "0"
        /\ rawLogs[j].state = "processed" /\ rawLogs[j].punch_type = "1"
        /\ rawLogs[j].attendance_id = rawLogs[i].attendance_id
        /\ rawLogs[k].state = "processed"
        /\ rawLogs[k].employee_id # rawLogs[i].employee_id

OpenOfLog(atts, logs, id) == OpenIds(atts, ForceEmployee(logs[id]))

\* C38: a step of action_force_checkin on a punch in state processed changes
\* neither the raw logs nor the sessions; on a punch in another state whose
\* employee is known it leaves the punch in state processed and the employee
\* with exactly one open session, whose check_in is the punch timestamp.
C38_ForceCheckin ==
    [][(lastOp'.op = "force" /\ ForceEmployee(rawLogs[lastOp'.log]) # NoEmp)
       => IF rawLogs[lastOp'.log].state = "processed"
          THEN rawLogs' = rawLogs /\ attendances' = attendances
          ELSE /\ rawLogs'[lastOp'.log].state = "processed"
               /\ \E i \in DOMAIN attendances' :
                     /\ OpenOfLog(attendances', rawLogs, lastOp'.log) = {i}
                     /\ attendances'[i].check_in = rawLogs[lastOp'.log].timestamp]_vars

\* C2: with two batches of one employee interleaved call by call, no state
\* holds two open sessions of the employee.
C2_OpensSerialized ==
    \A i, j \in DOMAIN attendances :
        (/\ attendances[i].employee_id = attendances[j].employee_id
         /\ attendances[i].check_out = Null
         /\ attendances[j].check_out = Null) => i = j

====
